---------------------------- MODULE Spec2Model ----------------------------
(***************************************************************************)
(* Model of src/app.py: the vehicle price dashboard.  The state is the     *)
(* content of the four storage locations (users.json, sessions.json,       *)
(* products.csv, historical/), the wall clock, and, for every request (a   *)
(* script run of one browser session), its position in the helper it is    *)
(* executing together with that helper's local variables.  Every storage   *)
(* call (download, upload) is one atomic step; the code between two        *)
(* storage calls runs in the step of the call that precedes it.            *)
(***************************************************************************)
EXTENDS Integers, Sequences, FiniteSets, TLC

VARIABLES
    users,          \* blob users.json:    [exists, data: username -> record]
    sessions,       \* blob sessions.json: [exists, data: session_id -> record]
    products,       \* blob products.csv:  [exists, data: csv text]
    historical,     \* folder historical/: file name -> csv text
    now,            \* datetime.now(), in clock ticks
    pc,             \* request -> the helper step it is at
    call,           \* request -> the helper call in progress and its arguments
    local,          \* request -> the helper's local dict (users / sessions)
    snap,           \* request -> what load_json_file returned to the helper
    atCall,         \* history: request -> the stored dict when the helper was called
    ret,            \* request -> the value the last finished helper returned
    usec,           \* reads of the clock that went into a session id
    ncalls,         \* helper calls and script runs started so far
    nfaults,        \* storage calls that raised so far
    issued,         \* history: sessions handed out by create_session
    loggedOut,      \* history: session ids whose logout_session has returned
    saved,          \* history: the save_products calls whose uploads succeeded
    session_state,  \* request -> st.session_state of its browser session
    run,            \* request -> what the current run of main has done
    shown           \* request -> what the current run of main has rendered

storage == <<users, sessions, products, historical>>
procs   == <<pc, call, local, snap, atCall, ret>>
history == <<issued, loggedOut, saved>>
ui      == <<session_state, run, shown>>
vars    == <<users, sessions, products, historical, now, usec, ncalls, pc, call, local,
             snap, atCall, ret, nfaults, issued, loggedOut, saved, session_state, run, shown>>

----------------------------------------------------------------------------
(* Bounds of the model *)

\* Clock ticks per minute: the resolution of the model's clock.
TicksPerMinute == 2
\* Fine clock steps taken after each long clock step.
MaxFine == 1
\* Long clock steps (of the session lifetime) the clock takes.
MaxJumps == 1
\* Storage calls that may raise in one behaviour.
MaxFaults == 1
\* Sessions create_session hands out in one behaviour.
MaxSessions == 2
\* Helper calls the requests make in one behaviour.
MaxCalls == 3
\* Helper calls in one behaviour of the two JSON files taken together.
MaxStoreCalls == 2
\* User events (script runs started by a click) in one behaviour.
MaxRuns == 1

(* Program constants *)

\* timedelta(hours=8)
SESSION_HOURS == 8
\* historical_files[:3]
RECENT == 3

Requests  == {1, 2}
Usernames == {"admin", "asesor"}
Passwords == {"admin123", "asesor123"}
Roles     == {"admin", "gerencia_ventas", "gerencia_media", "asesor"}
\* The roles the create-user form is submitted with in the model.
NewRoles  == {"gerencia_ventas", "asesor"}

----------------------------------------------------------------------------
(* Python values *)

None      == [none |-> TRUE]
EmptyDict == << >>
Put(d, k, v) == [x \in (DOMAIN d) \cup {k} |-> IF x = k THEN v ELSE d[x]]
Del(d, k)    == [x \in (DOMAIN d) \ {k} |-> d[x]]

\* datetime.isoformat() and datetime.fromisoformat(): a naive datetime is
\* written with all its digits and read back.
isoformat(t)     == [iso |-> t]
fromisoformat(s) == s.iso
timedelta_hours(h) == h * 60 * TicksPerMinute

\* hashlib.sha256(password.encode()).hexdigest(): the digest stands for its
\* preimage, two passwords of the model never collide.
hash_password(password) == [sha256 |-> password]
verify_password(password, hashed) == hash_password(password) = hashed

\* hashlib.md5(f"{username}{datetime.now()}".encode()).hexdigest().  The clock
\* has microsecond resolution: usec stands for the digits below one tick.
md5_session_id(username, t, us) == [md5 |-> <<username, t, us>>]

----------------------------------------------------------------------------
(* Storage helpers *)

NoBlob == [exists |-> FALSE, data |-> EmptyDict]
Blob(d) == [exists |-> TRUE, data |-> d]

\* A storage call may raise while the budget of faults lasts.
Outcomes == IF nfaults < MaxFaults THEN {FALSE, TRUE} ELSE {FALSE}
Fault(raises) == nfaults' = nfaults + (IF raises THEN 1 ELSE 0)

\* load_json_file(filename, {}): the content of the blob; the default when
\* the blob does not exist or when anything in the try block raised.
load_json_file(blob, raises) ==
    IF raises THEN EmptyDict
    ELSE IF blob.exists THEN blob.data ELSE EmptyDict

\* A save that merges: the keys stored meanwhile by others are kept.
save_json_file_merging(blob, data, raises) ==
    IF raises THEN blob
    ELSE Blob([k \in (DOMAIN blob.data) \cup (DOMAIN data) |->
                 IF k \in DOMAIN data THEN data[k] ELSE blob.data[k]])

\* save_json_file(filename, data): uploads data; an exception is reported
\* with st.error and swallowed, the blob is then left as it was.
save_json_file(blob, data, raises) ==
    IF raises THEN blob ELSE Blob(data)


----------------------------------------------------------------------------
(* Requests: calling a helper and returning from it *)

NoCall == [fn |-> "none"]
\* What a run of main has done so far: where it stands, what validate_session
\* answered in it, the role users.json held when get_user_role read it, the
\* username typed into the login form, and whether a user event started it.
NoRun == [stage |-> "none", valid |-> "none", role |-> "none",
          username |-> "", event |-> FALSE]

Idle(r) == pc[r] = "idle"

UsersHelpers    == {"create_user", "delete_user", "authenticate_user"}
SessionsHelpers == {"create_session", "validate_session", "logout_session"}
StoredDict(fn) ==
    IF fn \in UsersHelpers THEN users.data
    ELSE IF fn \in SessionsHelpers THEN sessions.data
    ELSE EmptyDict

\* The call of helper c.fn by request r: a new frame.
Enter(r, c) ==
    /\ pc'   = [pc EXCEPT ![r] = c.fn]
    /\ call' = [call EXCEPT ![r] = c]
    /\ ret'  = [ret EXCEPT ![r] = None]
    /\ atCall' = [atCall EXCEPT ![r] = StoredDict(c.fn)]
    /\ UNCHANGED <<local, snap>>

\* An idle request calls a helper directly.
Invoke(r, c) ==
    /\ Idle(r)
    /\ ncalls < MaxCalls
    /\ ncalls' = ncalls + 1
    /\ Enter(r, c)
    /\ shown' = [shown EXCEPT ![r] = {}]
    /\ UNCHANGED <<storage, now, usec, nfaults, history, session_state, run>>

\* return v: the helper's locals die with its frame.
Finish(r, v) ==
    /\ pc'    = [pc EXCEPT ![r] = "idle"]
    /\ call'  = [call EXCEPT ![r] = NoCall]
    /\ ret'   = [ret EXCEPT ![r] = v]
    /\ local' = [local EXCEPT ![r] = EmptyDict]
    /\ snap'  = [snap EXCEPT ![r] = EmptyDict]
    /\ atCall' = [atCall EXCEPT ![r] = EmptyDict]

\* The helper goes on to its save_json_file call with the dict d.
GoSave(r, loaded, d) ==
    /\ pc'    = [pc EXCEPT ![r] = call[r].fn \o "_save"]
    /\ local' = [local EXCEPT ![r] = d]
    /\ snap'  = [snap EXCEPT ![r] = loaded]
    /\ UNCHANGED <<call, atCall, ret>>

----------------------------------------------------------------------------
(* users.json: create_user, delete_user, authenticate_user *)

new_user(password, role, t) ==
    [password   |-> hash_password(password),
     role       |-> role,
     created_at |-> isoformat(t),
     last_login |-> None]

create_user_call(r) ==
    /\ Idle(r)
    /\ \E u \in Usernames, p \in Passwords, role \in NewRoles :
        Invoke(r, [fn |-> "create_user", username |-> u, password |-> p,
                   role |-> role])

\* users = load_json_file(USERS_FILE, {}); if username in users: return ...;
\* users[username] = {...}
create_user_load(r) ==
    /\ pc[r] = "create_user"
    /\ \E raises \in Outcomes :
        LET users_l == load_json_file(users, raises)
            c       == call[r]
        IN  /\ Fault(raises)
            /\ IF c.username \in DOMAIN users_l
               THEN Finish(r, <<FALSE, "El usuario ya existe">>)
               ELSE GoSave(r, users_l,
                           Put(users_l, c.username,
                               new_user(c.password, c.role, now)))
    /\ UNCHANGED <<storage, now, usec, ncalls, history, ui>>

\* save_json_file(USERS_FILE, users); return True, "..."
create_user_save(r) ==
    /\ pc[r] = "create_user_save"
    /\ \E raises \in Outcomes :
        /\ Fault(raises)
        /\ users' = save_json_file(users, local[r], raises)
    /\ Finish(r, <<TRUE, "Usuario creado exitosamente">>)
    /\ UNCHANGED <<sessions, products, historical, now, usec, ncalls, history, ui>>

delete_user_call(r) ==
    /\ Idle(r)
    /\ \E u \in Usernames :
        Invoke(r, [fn |-> "delete_user", username |-> u])

delete_user_load(r) ==
    /\ pc[r] = "delete_user"
    /\ \E raises \in Outcomes :
        LET users_l == load_json_file(users, raises)
            c       == call[r]
        IN  /\ Fault(raises)
            /\ IF c.username \notin DOMAIN users_l
               THEN Finish(r, <<FALSE, "El usuario no existe.">>)
               ELSE GoSave(r, users_l, Del(users_l, c.username))
    /\ UNCHANGED <<storage, now, usec, ncalls, history, ui>>

delete_user_save(r) ==
    /\ pc[r] = "delete_user_save"
    /\ \E raises \in Outcomes :
        /\ Fault(raises)
        /\ users' = save_json_file(users, local[r], raises)
    /\ Finish(r, <<TRUE, "Usuario eliminado exitosamente.">>)
    /\ UNCHANGED <<sessions, products, historical, now, usec, ncalls, history, ui>>

authenticate_user_call(r) ==
    /\ Idle(r)
    /\ \E u \in Usernames, p \in Passwords :
        Invoke(r, [fn |-> "authenticate_user", username |-> u, password |-> p])

authenticate_user_load(r) ==
    /\ pc[r] = "authenticate_user"
    /\ \E raises \in Outcomes :
        LET users_l == load_json_file(users, raises)
            c       == call[r]
        IN  /\ Fault(raises)
            /\ IF c.username \notin DOMAIN users_l
               THEN Finish(r, <<FALSE, "Usuario no encontrado">>)
               ELSE IF ~verify_password(c.password, users_l[c.username].password)
               THEN Finish(r, <<FALSE, "Contraseña incorrecta">>)
               ELSE GoSave(r, users_l,
                           [users_l EXCEPT ![c.username].last_login =
                                               isoformat(now)])
    /\ UNCHANGED <<storage, now, usec, ncalls, history, ui>>

authenticate_user_save(r) ==
    /\ pc[r] = "authenticate_user_save"
    /\ \E raises \in Outcomes :
        /\ Fault(raises)
        /\ users' = save_json_file(users, local[r], raises)
    /\ Finish(r, <<TRUE, "Autenticación exitosa">>)
    /\ UNCHANGED <<sessions, products, historical, now, usec, ncalls, history, ui>>

----------------------------------------------------------------------------
(* sessions.json: create_session, validate_session, logout_session *)

new_session(username, t) ==
    [username   |-> username,
     created_at |-> isoformat(t),
     expires_at |-> isoformat(t + timedelta_hours(SESSION_HOURS))]

\* Session ids a browser can present: the ones handed out, the ones stored.
KnownSessionIds == {s.sid : s \in issued} \cup DOMAIN sessions.data

create_session_call(r) ==
    /\ usec + Cardinality({q \in Requests : pc[q] = "create_session"})
           < MaxSessions
    /\ \E u \in Usernames :
        Invoke(r, [fn |-> "create_session", username |-> u])

\* sessions = load_json_file(SESSIONS_FILE, {}); session_id = md5(...);
\* sessions[session_id] = {...}
create_session_load(r) ==
    /\ pc[r] = "create_session"
    /\ \E raises \in Outcomes :
        LET sessions_l == load_json_file(sessions, raises)
            session_id == md5_session_id(call[r].username, now, usec)
        IN  /\ Fault(raises)
            /\ pc'    = [pc EXCEPT ![r] = "create_session_save"]
            /\ call'  = [call EXCEPT ![r] =
                            [fn |-> "create_session",
                             username |-> call[r].username,
                             session_id |-> session_id]]
            /\ snap'  = [snap EXCEPT ![r] = sessions_l]
            /\ local' = [local EXCEPT ![r] =
                            Put(sessions_l, session_id,
                                new_session(call[r].username, now))]
            /\ UNCHANGED atCall
    /\ usec' = usec + 1
    /\ UNCHANGED <<storage, now, ncalls, ret, history, ui>>

\* save_json_file(SESSIONS_FILE, sessions); return session_id
create_session_save(r) ==
    /\ pc[r] = "create_session_save"
    /\ \E raises \in Outcomes :
        /\ Fault(raises)
        /\ sessions' = save_json_file(sessions, local[r], raises)
    /\ issued' = issued \cup
           {[sid      |-> call[r].session_id,
             username |-> call[r].username,
             at       |-> fromisoformat(local[r][call[r].session_id].created_at)]}
    /\ Finish(r, call[r].session_id)
    /\ UNCHANGED <<users, products, historical, now, usec, ncalls, loggedOut, saved, ui>>

validate_session_call(r) ==
    /\ Idle(r)
    /\ \E sid \in KnownSessionIds :
        Invoke(r, [fn |-> "validate_session", session_id |-> sid])

\* sessions = load_json_file(...); if session_id not in sessions: return
\* False, None; if datetime.now() > expires_at: del sessions[session_id]
validate_session_load(r) ==
    /\ pc[r] = "validate_session"
    /\ \E raises \in Outcomes :
        LET sessions_l == load_json_file(sessions, raises)
            sid        == call[r].session_id
        IN  /\ Fault(raises)
            /\ IF sid \notin DOMAIN sessions_l
               THEN Finish(r, <<FALSE, None>>)
               ELSE IF now > fromisoformat(sessions_l[sid].expires_at)
               THEN GoSave(r, sessions_l, Del(sessions_l, sid))
               ELSE Finish(r, <<TRUE, sessions_l[sid].username>>)
    /\ UNCHANGED <<storage, now, usec, ncalls, history, ui>>

\* save_json_file(SESSIONS_FILE, sessions); return False, None
validate_session_save(r) ==
    /\ pc[r] = "validate_session_save"
    /\ \E raises \in Outcomes :
        /\ Fault(raises)
        /\ sessions' = save_json_file(sessions, local[r], raises)
    /\ Finish(r, <<FALSE, None>>)
    /\ UNCHANGED <<users, products, historical, now, usec, ncalls, history, ui>>

logout_session_call(r) ==
    /\ Idle(r)
    /\ \E sid \in KnownSessionIds :
        Invoke(r, [fn |-> "logout_session", session_id |-> sid])

\* sessions = load_json_file(...); if session_id in sessions: del ...
logout_session_load(r) ==
    /\ pc[r] = "logout_session"
    /\ \E raises \in Outcomes :
        LET sessions_l == load_json_file(sessions, raises)
            sid        == call[r].session_id
        IN  /\ Fault(raises)
            /\ IF sid \in DOMAIN sessions_l
               THEN /\ GoSave(r, sessions_l, Del(sessions_l, sid))
                    /\ UNCHANGED loggedOut
               ELSE /\ Finish(r, None)
                    /\ loggedOut' = loggedOut \cup {sid}
    /\ UNCHANGED <<storage, now, usec, ncalls, issued, saved, ui>>

\* save_json_file(SESSIONS_FILE, sessions)
logout_session_save(r) ==
    /\ pc[r] = "logout_session_save"
    /\ \E raises \in Outcomes :
        /\ Fault(raises)
        /\ sessions' = save_json_file(sessions, local[r], raises)
    /\ loggedOut' = loggedOut \cup {call[r].session_id}
    /\ Finish(r, None)
    /\ UNCHANGED <<users, products, historical, now, usec, ncalls, issued, saved, ui>>

----------------------------------------------------------------------------
(* The clock: it moves by one tick, or by the lifetime of a session *)

SessionLife == timedelta_hours(SESSION_HOURS)

TickFine ==
    /\ now % SessionLife < MaxFine
    /\ now' = now + 1
    /\ UNCHANGED <<storage, usec, ncalls, procs, nfaults, history, ui>>

TickLong ==
    /\ now < MaxJumps * SessionLife
    /\ now' = now + SessionLife
    /\ UNCHANGED <<storage, usec, ncalls, procs, nfaults, history, ui>>

----------------------------------------------------------------------------
(* The helpers over the two JSON files, called by concurrent requests *)

InitUsers ==
    Blob([u \in {"admin"} |-> new_user("admin123", "admin", 0)])

\* admin logged in at time 0 and holds the session.
InitSessionId == md5_session_id("admin", 0, 0)
InitSessions  ==
    Blob([s \in {InitSessionId} |-> new_session("admin", 0)])

InitCommon ==
    /\ usec = 1
    /\ ncalls = 0
    /\ nfaults = 0
    /\ pc = [r \in Requests |-> "idle"]
    /\ call = [r \in Requests |-> NoCall]
    /\ local = [r \in Requests |-> EmptyDict]
    /\ snap = [r \in Requests |-> EmptyDict]
    /\ atCall = [r \in Requests |-> EmptyDict]
    /\ ret = [r \in Requests |-> None]
    /\ loggedOut = {}
    /\ saved = << >>
    /\ run = [r \in Requests |-> NoRun]
    /\ shown = [r \in Requests |-> {}]

Init ==
    /\ InitCommon
    /\ issued = {[sid |-> InitSessionId, username |-> "admin", at |-> 0]}
    /\ session_state = [r \in Requests |-> EmptyDict]
    /\ now = 0
    /\ users = InitUsers
    /\ sessions = InitSessions
    /\ products = NoBlob
    /\ historical = EmptyDict

Next ==
    \/ \E r \in Requests : create_user_call(r)
    \/ \E r \in Requests : create_user_load(r)
    \/ \E r \in Requests : create_user_save(r)
    \/ \E r \in Requests : delete_user_call(r)
    \/ \E r \in Requests : delete_user_load(r)
    \/ \E r \in Requests : delete_user_save(r)
    \/ \E r \in Requests : authenticate_user_call(r)
    \/ \E r \in Requests : authenticate_user_load(r)
    \/ \E r \in Requests : authenticate_user_save(r)
    \/ \E r \in Requests : create_session_call(r)
    \/ \E r \in Requests : create_session_load(r)
    \/ \E r \in Requests : create_session_save(r)
    \/ \E r \in Requests : validate_session_call(r)
    \/ \E r \in Requests : validate_session_load(r)
    \/ \E r \in Requests : validate_session_save(r)
    \/ \E r \in Requests : logout_session_call(r)
    \/ \E r \in Requests : logout_session_load(r)
    \/ \E r \in Requests : logout_session_save(r)
    \/ TickFine
    \/ TickLong

Spec == Init /\ [][Next]_vars

NextUsers ==
    \/ \E r \in Requests : create_user_call(r)
    \/ \E r \in Requests : create_user_load(r)
    \/ \E r \in Requests : create_user_save(r)
    \/ \E r \in Requests : delete_user_call(r)
    \/ \E r \in Requests : delete_user_load(r)
    \/ \E r \in Requests : delete_user_save(r)
    \/ \E r \in Requests : authenticate_user_call(r)
    \/ \E r \in Requests : authenticate_user_load(r)
    \/ \E r \in Requests : authenticate_user_save(r)
    \/ TickFine

SpecUsers == Init /\ [][NextUsers]_vars

NextSessions ==
    \/ \E r \in Requests : create_session_call(r)
    \/ \E r \in Requests : create_session_load(r)
    \/ \E r \in Requests : create_session_save(r)
    \/ \E r \in Requests : validate_session_call(r)
    \/ \E r \in Requests : validate_session_load(r)
    \/ \E r \in Requests : validate_session_save(r)
    \/ \E r \in Requests : logout_session_call(r)
    \/ \E r \in Requests : logout_session_load(r)
    \/ \E r \in Requests : logout_session_save(r)
    \/ TickFine
    \/ TickLong

SpecSessions == Init /\ [][NextSessions]_vars

----------------------------------------------------------------------------
(* products.csv and historical/: save_products, show_products_dashboard *)

basic_columns ==
    {"Familia", "Año", "Precio_Nibol", "Precio_Lista", "Descuento",
     "Precio_Final"}
management_columns ==
    {"Dscto_Gerencia", "Dsct_Seguro", "Dscto_Impuesto", "Bono",
     "Precio_Gerencia", "Precio_BOB", "USDT", "USD_Ext", "USD_Efect"}

\* A DataFrame: its columns, and per row the value of Familia (the other
\* cells play no part in what is shown).
DataFrame(cols, rows) == [columns |-> cols, rows |-> rows]
\* pd.DataFrame(columns=[...]): what load_products returns for a missing blob.
EmptyFrame == DataFrame(basic_columns \cup management_columns, << >>)

\* The CSV files an administrator uploads in the model: a full price list, a
\* list of the basic columns, and a sheet of management figures only
\* (pd.read_csv accepts any CSV, the upload is not validated).
FullList     == DataFrame(basic_columns \cup management_columns,
                          <<"Kicks", "Versa">>)
BasicList    == DataFrame(basic_columns, <<"Kicks">>)
GerenciaOnly == DataFrame({"Precio_Gerencia", "Dscto_Gerencia", "Bono"},
                          <<"-">>)
Uploads == {FullList, BasicList, GerenciaOnly}

\* df.to_csv(index=False) and pd.read_csv: the header line and the rows are
\* written out and read back.
to_csv(df)    == [csv |-> <<df.columns, df.rows>>]
read_csv(txt) == DataFrame(txt.csv[1], txt.csv[2])

\* datetime.now().strftime("%Y-%m-%d_%H-%M"): the clock cut to the minute.
strftime_minute(t) == t \div TicksPerMinute
historical_filename(t) ==
    [stamp |-> strftime_minute(t), suffix |-> "_nissan_price_list.csv"]

\* load_products() / load_historical_products(): the frame read from the
\* blob; the empty frame when it is missing or when reading raised.
load_products(blob, raises) ==
    IF ~raises /\ blob.exists THEN read_csv(blob.data) ELSE EmptyFrame
load_historical_products(name, raises) ==
    IF ~raises /\ name \in DOMAIN historical
    THEN read_csv(historical[name]) ELSE EmptyFrame

save_products_call(r) ==
    /\ Idle(r)
    /\ \E df \in Uploads :
        Invoke(r, [fn |-> "save_products", df |-> df])

\* 1. the history copy, named after the minute
save_products_historical(r) ==
    /\ pc[r] = "save_products"
    /\ \E raises \in Outcomes :
        /\ Fault(raises)
        /\ IF raises
           THEN /\ Finish(r, None)
                /\ UNCHANGED historical
           ELSE /\ historical' =
                       Put(historical, historical_filename(now),
                           to_csv(call[r].df))
                /\ pc' = [pc EXCEPT ![r] = "save_products_main"]
                /\ UNCHANGED <<call, local, snap, atCall, ret>>
    /\ UNCHANGED <<users, sessions, products, now, usec, ncalls, history, ui>>

\* 2. the main file
save_products_main(r) ==
    /\ pc[r] = "save_products_main"
    /\ \E raises \in Outcomes :
        /\ Fault(raises)
        /\ IF raises
           THEN UNCHANGED <<products, saved>>
           ELSE /\ products' = Blob(to_csv(call[r].df))
                /\ saved' = Append(saved, call[r].df)
    /\ Finish(r, None)
    /\ UNCHANGED <<users, sessions, historical, now, usec, ncalls, issued,
                   loggedOut, ui>>

\* sorted(historical_files, reverse=True)[:3]
RECURSIVE SortedDesc(_)
SortedDesc(S) ==
    IF S = {} THEN << >>
    ELSE LET m == CHOOSE x \in S : \A y \in S : y.stamp <= x.stamp
         IN  <<m>> \o SortedDesc(S \ {m})
recent_files ==
    LET n == Cardinality(DOMAIN historical)
    IN  SubSeq(SortedDesc(DOMAIN historical), 1, IF n < RECENT THEN n ELSE RECENT)

Families(df) == {df.rows[i] : i \in DOMAIN df.rows}
WhereFamily(df, sel) ==
    DataFrame(df.columns, SelectSeq(df.rows, LAMBDA x : x = sel))

\* The table a role is shown: the basic columns for an asesor, when the frame
\* has any of them, and the whole frame otherwise.
displayed_columns(user_role, df) ==
    IF user_role = "asesor"
    THEN LET available_columns == basic_columns \cap df.columns
         IN  IF available_columns # {} THEN available_columns ELSE df.columns
    ELSE df.columns

\* key=f"btn_historical_{i}" for the three most recent files
btn_historical == <<"btn_historical_0", "btn_historical_1", "btn_historical_2">>
HistoricalButtons == {btn_historical[i] : i \in DOMAIN btn_historical}
ButtonIndex(click) == CHOOSE i \in DOMAIN btn_historical : btn_historical[i] = click
Clicks == {"none", "btn_current_prices"} \cup HistoricalButtons

Rendered(kind, role, cols) == [kind |-> kind, role |-> role, columns |-> cols]

\* One run of show_products_dashboard(user_role) for the browser session with
\* st.session_state ss: the new session state and what the run rendered.
dashboard_run(user_role, ss, click, selected_family, raisesP, raisesH) ==
    LET products_df == load_products(products, raisesP)
        view(s, kind, cols) == [session_state |-> s,
                                shown |-> Rendered(kind, user_role, cols)]
    IN  IF products_df.rows = << >> THEN view(ss, "warning", {})
        ELSE IF "Familia" \notin products_df.columns
        THEN view(ss, "error", {})
        ELSE IF /\ click \in HistoricalButtons
                /\ ButtonIndex(click) <= Len(recent_files)
        THEN view(Put(ss, "show_historical_file",
                      recent_files[ButtonIndex(click)]),
                  "rerun", {})
        ELSE IF /\ "show_historical_file" \in DOMAIN ss
                /\ click = "btn_current_prices"
        THEN view(Del(ss, "show_historical_file"), "rerun", {})
        ELSE
          LET first_try == IF "show_historical_file" \in DOMAIN ss
                           THEN load_historical_products(
                                    ss["show_historical_file"], raisesH)
                           ELSE products_df
              \* the second attempt after an empty historical frame
              df == IF /\ "show_historical_file" \in DOMAIN ss
                       /\ first_try.rows = << >>
                    THEN load_historical_products(
                             ss["show_historical_file"], FALSE)
                    ELSE first_try
          IN  IF df.rows = << >> THEN view(ss, "warning", {})
              ELSE IF selected_family = "Todas"
              THEN view(ss, "table", displayed_columns(user_role, df))
              ELSE IF "Familia" \notin df.columns THEN view(ss, "error", {})
              ELSE IF WhereFamily(df, selected_family).rows = << >>
              THEN view(ss, "warning", {})
              ELSE view(ss, "table", displayed_columns(user_role, df))

\* st.rerun() ends the run and starts the script again at once, with the
\* widgets as they are and no button pressed.
dashboard_with_rerun(user_role, ss, click, selected_family, raisesP, raisesH) ==
    LET v == dashboard_run(user_role, ss, click, selected_family,
                           raisesP, raisesH)
    IN  IF v.shown.kind = "rerun"
        THEN dashboard_run(user_role, v.session_state, "none",
                           selected_family, FALSE, FALSE)
        ELSE v

\* A user of role user_role opens or clicks in the vehicles page.
show_products_dashboard(r) ==
    /\ Idle(r)
    /\ ncalls < MaxCalls
    /\ ncalls' = ncalls + 1
    /\ \E user_role \in Roles, click \in Clicks,
          sel \in {"Todas"} \cup Families(load_products(products, FALSE)),
          raisesP \in Outcomes, raisesH \in Outcomes :
        LET v == dashboard_with_rerun(user_role, session_state[r], click, sel,
                                      raisesP, raisesH)
            n == (IF raisesP THEN 1 ELSE 0) + (IF raisesH THEN 1 ELSE 0)
        IN  /\ nfaults + n <= MaxFaults
            /\ nfaults' = nfaults + n
            /\ session_state' = [session_state EXCEPT ![r] = v.session_state]
            /\ shown' = [shown EXCEPT ![r] = {v.shown}]
    /\ UNCHANGED <<storage, now, usec, procs, history, run>>

NextProducts ==
    \/ \E r \in Requests : save_products_call(r)
    \/ \E r \in Requests : save_products_historical(r)
    \/ \E r \in Requests : save_products_main(r)
    \/ \E r \in Requests : show_products_dashboard(r)
    \/ TickFine
    \/ TickLong

SpecProducts == Init /\ [][NextProducts]_vars

\* The helpers over both JSON files, a few calls at a time.
NextStore ==
    \/ \E r \in Requests : ncalls < MaxStoreCalls /\ create_user_call(r)
    \/ \E r \in Requests : create_user_load(r)
    \/ \E r \in Requests : create_user_save(r)
    \/ \E r \in Requests : ncalls < MaxStoreCalls /\ delete_user_call(r)
    \/ \E r \in Requests : delete_user_load(r)
    \/ \E r \in Requests : delete_user_save(r)
    \/ \E r \in Requests : ncalls < MaxStoreCalls /\ authenticate_user_call(r)
    \/ \E r \in Requests : authenticate_user_load(r)
    \/ \E r \in Requests : authenticate_user_save(r)
    \/ \E r \in Requests : ncalls < MaxStoreCalls /\ create_session_call(r)
    \/ \E r \in Requests : create_session_load(r)
    \/ \E r \in Requests : create_session_save(r)
    \/ \E r \in Requests : ncalls < MaxStoreCalls /\ validate_session_call(r)
    \/ \E r \in Requests : validate_session_load(r)
    \/ \E r \in Requests : validate_session_save(r)
    \/ \E r \in Requests : ncalls < MaxStoreCalls /\ logout_session_call(r)
    \/ \E r \in Requests : logout_session_load(r)
    \/ \E r \in Requests : logout_session_save(r)

\* The calls are over within one tick of the clock; admin's session of time 0
\* has just expired.
InitStore ==
    /\ InitCommon
    /\ issued = {[sid |-> InitSessionId, username |-> "admin", at |-> 0]}
    /\ session_state = [r \in Requests |-> EmptyDict]
    /\ now = SessionLife + 1
    /\ users = InitUsers
    /\ sessions = InitSessions
    /\ products = NoBlob
    /\ historical = EmptyDict

SpecStore == InitStore /\ [][NextStore]_vars

----------------------------------------------------------------------------
(* main: the script run a user event starts, and the reruns it asks for.    *)
(* The helpers main calls take their storage steps as above; main goes on   *)
(* from a helper's return in a step of its own.                             *)

\* The accounts initialize_default_data creates: username, password, role.
default_accounts ==
    {<<"admin", "admin123", "admin">>,
     <<"gerencia_ventas", "ventas123", "gerencia_ventas">>,
     <<"gerencia_media", "media123", "gerencia_media">>,
     <<"asesor", "asesor123", "asesor">>}
DefaultUsers ==
    Blob([u \in {a[1] : a \in default_accounts} |->
            LET a == CHOOSE a \in default_accounts : a[1] = u
            IN  new_user(a[2], a[3], 0)])

\* users.get(username, {}).get("role", "asesor")
get_user_role(users_l, username) ==
    IF username \in DOMAIN users_l THEN users_l[username].role ELSE "asesor"

\* A main that trusts the session state and validates nothing.
trust_session_state(ss) == FALSE

\* if "session_id" in st.session_state: validate it
must_validate(ss) == "session_id" \in DOMAIN ss
\* if "session_id" not in st.session_state: login page, else: the user's page
logged_in(ss) == "session_id" \in DOMAIN ss

\* A dispatch that gives gerencia_media the panel of gerencia_ventas.
panel_of_lax(user_role) ==
    IF user_role \in {"gerencia_ventas", "gerencia_media"}
    THEN "ventas_panel"
    ELSE IF user_role = "admin" THEN "admin_panel" ELSE "none"

\* The panel main shows below the dashboard, by role.
panel_of(user_role) ==
    CASE user_role = "admin"           -> "admin_panel"
      [] user_role = "gerencia_ventas" -> "ventas_panel"
      [] user_role = "gerencia_media"  -> "media_panel"
      [] OTHER                         -> "none"

\* What the login form is submitted with: nothing, the credentials of the
\* default gerencia_ventas or asesor user, a wrong password, empty fields.
NoLogin == [submit |-> FALSE, username |-> "", password |-> ""]
Logins ==
    {[submit |-> TRUE, username |-> a[1], password |-> a[2]] :
        a \in {b \in default_accounts : b[3] \in NewRoles}}
    \cup {[submit |-> TRUE, username |-> "admin", password |-> "asesor123"],
          [submit |-> TRUE, username |-> "", password |-> ""],
          NoLogin}

\* What the create-user form is submitted with, whom a delete button names.
NewAccounts ==
    {<<"vendedor", "vendedor123", "gerencia_ventas">>,
     <<"asesor", "asesor123", "admin">>}
DeleteTargets == {"admin", "gerencia_ventas", "asesor"}

\* The widget event a run of the user's page comes with.  The browser may
\* send the event of any widget; only a widget the run renders reacts.
PageClicks ==
    {[key |-> k] : k \in Clicks \cup {"logout"}}
    \cup {[key |-> k, df |-> d] :
            k \in {"admin_save_btn", "ventas_save_btn"},
            d \in {FullList, GerenciaOnly}}
    \cup {[key |-> "create_user_form", username |-> a[1], password |-> a[2],
           role |-> a[3]] : a \in NewAccounts}
    \cup {[key |-> "delete_", username |-> u] : u \in DeleteTargets}

LoginForm       == Rendered("login_form", "", {})
LoginError(msg) == Rendered("login_error", msg, {})
Panel(p, role)  == Rendered(p, role, {})

StoredRole(username) ==
    IF users.exists /\ username \in DOMAIN users.data
    THEN users.data[username].role ELSE "absent"

LoginsPending ==
    Cardinality({q \in Requests :
                    run[q].stage = "auth" \/ pc[q] = "create_session"})

\* show_login_form(): the form, and what its submit button does.
show_login_form(r, login, valid) ==
    IF login.submit /\ login.username # "" /\ login.password # ""
    THEN /\ Enter(r, [fn |-> "authenticate_user",
                      username |-> login.username,
                      password |-> login.password])
         /\ run' = [run EXCEPT ![r] =
                       [NoRun EXCEPT !.stage = "auth",
                                     !.username = login.username]]
         /\ shown' = [shown EXCEPT ![r] = {LoginForm}]
    ELSE /\ run' = [run EXCEPT ![r] =
                       [NoRun EXCEPT !.stage = "done", !.valid = valid]]
         /\ shown' = [shown EXCEPT ![r] =
                         IF login.submit
                         THEN {LoginForm,
                               LoginError("Por favor, complete todos los campos")}
                         ELSE {LoginForm}]
         /\ UNCHANGED procs

\* The script starts from the top with session state ss.
\* initialize_default_data() finds the users file and creates nothing.
StartRun(r, ss, event, login, valid) ==
    /\ users.exists
    /\ session_state' = [session_state EXCEPT ![r] = ss]
    /\ IF must_validate(ss)
       THEN /\ Enter(r, [fn |-> "validate_session",
                         session_id |-> ss["session_id"]])
            /\ run' = [run EXCEPT ![r] =
                          [NoRun EXCEPT !.stage = "validate", !.event = event]]
            /\ shown' = [shown EXCEPT ![r] = {}]
       ELSE IF logged_in(ss)
       THEN /\ run' = [run EXCEPT ![r] =
                          [NoRun EXCEPT !.stage = "page", !.event = event]]
            /\ shown' = [shown EXCEPT ![r] = {}]
            /\ UNCHANGED procs
       ELSE show_login_form(r, login, valid)

\* st.rerun(): the run ends and the script starts again, no widget pressed.
rerun(r, ss, valid) == StartRun(r, ss, FALSE, NoLogin, valid)

\* A user event starts a run of main in browser session r.
main_begin(r) ==
    /\ Idle(r)
    /\ run[r].stage \in {"none", "done"}
    /\ ncalls < MaxRuns
    /\ ncalls' = ncalls + 1
    /\ \E login \in Logins :
        /\ (login.submit /\ ~logged_in(session_state[r]))
               => usec + LoginsPending < MaxSessions
        /\ StartRun(r, session_state[r], TRUE, login, "none")
    /\ UNCHANGED <<storage, now, usec, nfaults, history>>

\* valid, username = validate_session(...); if not valid: clear and rerun;
\* else: st.session_state.user_role = get_user_role(username)
main_validated(r) ==
    /\ run[r].stage = "validate"
    /\ Idle(r)
    /\ LET valid    == ret[r][1]
           username == ret[r][2]
       IN  IF ~valid
           THEN /\ rerun(r, EmptyDict, "no")
                /\ UNCHANGED nfaults
           ELSE \E raises \in Outcomes :
                  LET users_l == load_json_file(users, raises)
                  IN  /\ Fault(raises)
                      /\ session_state' =
                           [session_state EXCEPT ![r] =
                              Put(Put(session_state[r], "username", username),
                                  "user_role", get_user_role(users_l, username))]
                      /\ run' = [run EXCEPT ![r] =
                                    [run[r] EXCEPT !.stage = "page",
                                                   !.valid = "yes",
                                                   !.role = StoredRole(username)]]
                      /\ UNCHANGED <<procs, shown>>
    /\ UNCHANGED <<storage, now, usec, ncalls, history>>

\* The page of a logged-in user: the header with the logout button, the
\* dashboard, the panel of the role and the button of the panel that was
\* pressed.
main_page(r) ==
    /\ run[r].stage = "page"
    /\ \E click \in (IF run[r].event THEN PageClicks ELSE {[key |-> "none"]}),
          sel \in {"Todas"} \cup Families(load_products(products, FALSE)),
          raisesP \in Outcomes, raisesH \in Outcomes, raisesU \in Outcomes :
        LET ss        == session_state[r]
            user_role == ss["user_role"]
            key       == click.key
            v         == dashboard_run(user_role, ss,
                                       IF key \in Clicks THEN key ELSE "none",
                                       sel, raisesP, raisesH)
            panel     == panel_of(user_role)
            users_l   == load_json_file(users, raisesU)
            n         == (IF raisesP THEN 1 ELSE 0) + (IF raisesH THEN 1 ELSE 0)
                         + (IF raisesU THEN 1 ELSE 0)
            done      == /\ run' = [run EXCEPT ![r].stage = "done"]
                         /\ UNCHANGED <<procs, session_state>>
            write(c, stage) ==
                         /\ Enter(r, c)
                         /\ run' = [run EXCEPT ![r].stage = stage]
                         /\ UNCHANGED session_state
            page      == {v.shown} \cup
                         (IF panel = "none" THEN {} ELSE {Panel(panel, user_role)})
        IN  /\ nfaults + n <= MaxFaults
            /\ nfaults' = nfaults + n
            /\ IF key = "logout"
               THEN /\ write([fn |-> "logout_session",
                              session_id |-> ss["session_id"]], "logout")
                    /\ UNCHANGED shown
               ELSE IF user_role \notin Roles
               THEN done /\ UNCHANGED shown
               ELSE IF v.shown.kind = "rerun"
               THEN rerun(r, v.session_state, "none")
               ELSE IF v.shown.kind = "error"
               \* the KeyError reaches the except clause of main
               THEN done /\ shown' = [shown EXCEPT ![r] = {v.shown}]
               ELSE
                 /\ shown' = [shown EXCEPT ![r] = page]
                 /\ IF \/ key = "admin_save_btn" /\ panel = "admin_panel"
                       \/ key = "ventas_save_btn" /\ panel = "ventas_panel"
                    THEN write([fn |-> "save_products", df |-> click.df],
                               "write_products")
                    ELSE IF key = "create_user_form" /\ panel = "admin_panel"
                    THEN write([fn |-> "create_user",
                                username |-> click.username,
                                password |-> click.password,
                                role |-> click.role], "write_users")
                    ELSE IF /\ key = "delete_" /\ panel = "admin_panel"
                            /\ click.username \in DOMAIN users_l
                            /\ click.username # ss["username"]
                    THEN write([fn |-> "delete_user",
                                username |-> click.username], "write_users")
                    ELSE done
    /\ UNCHANGED <<storage, now, usec, ncalls, history>>

\* success, message = authenticate_user(...); if success: create_session
main_authenticated(r) ==
    /\ run[r].stage = "auth"
    /\ Idle(r)
    /\ IF ret[r][1]
       THEN /\ Enter(r, [fn |-> "create_session",
                         username |-> run[r].username])
            /\ run' = [run EXCEPT ![r].stage = "session"]
            /\ UNCHANGED shown
       ELSE /\ run' = [run EXCEPT ![r] = [NoRun EXCEPT !.stage = "done"]]
            /\ shown' = [shown EXCEPT ![r] = {LoginForm, LoginError(ret[r][2])}]
            /\ UNCHANGED procs
    /\ UNCHANGED <<storage, now, usec, ncalls, nfaults, history, session_state>>

\* st.session_state.session_id = session_id; ...user_role = get_user_role(...);
\* st.rerun()
main_session_created(r) ==
    /\ run[r].stage = "session"
    /\ Idle(r)
    /\ \E raises \in Outcomes :
        LET users_l == load_json_file(users, raises)
            u       == run[r].username
        IN  /\ Fault(raises)
            /\ rerun(r, Put(Put(Put(EmptyDict, "session_id", ret[r]),
                                "username", u),
                            "user_role", get_user_role(users_l, u)),
                     "none")
    /\ UNCHANGED <<storage, now, usec, ncalls, history>>

\* After save_products: st.success, st.rerun().  After create_user and
\* delete_user: the same on success, st.error(message) otherwise.
main_written(r) ==
    /\ run[r].stage \in {"write_products", "write_users"}
    /\ Idle(r)
    /\ IF run[r].stage = "write_products" \/ ret[r][1]
       THEN rerun(r, session_state[r], "none")
       ELSE /\ run' = [run EXCEPT ![r].stage = "done"]
            /\ UNCHANGED <<procs, session_state, shown>>
    /\ UNCHANGED <<storage, now, usec, ncalls, nfaults, history>>

\* After logout_session: every key of st.session_state is deleted, st.rerun()
main_logged_out(r) ==
    /\ run[r].stage = "logout"
    /\ Idle(r)
    /\ rerun(r, EmptyDict, "none")
    /\ UNCHANGED <<storage, now, usec, ncalls, nfaults, history>>

NextMain ==
    \/ \E r \in Requests : main_begin(r)
    \/ \E r \in Requests : main_validated(r)
    \/ \E r \in Requests : main_page(r)
    \/ \E r \in Requests : main_authenticated(r)
    \/ \E r \in Requests : main_session_created(r)
    \/ \E r \in Requests : main_written(r)
    \/ \E r \in Requests : main_logged_out(r)
    \/ \E r \in Requests : authenticate_user_load(r)
    \/ \E r \in Requests : authenticate_user_save(r)
    \/ \E r \in Requests : create_session_load(r)
    \/ \E r \in Requests : create_session_save(r)
    \/ \E r \in Requests : validate_session_load(r)
    \/ \E r \in Requests : validate_session_save(r)
    \/ \E r \in Requests : logout_session_load(r)
    \/ \E r \in Requests : logout_session_save(r)
    \/ \E r \in Requests : create_user_load(r)
    \/ \E r \in Requests : create_user_save(r)
    \/ \E r \in Requests : delete_user_load(r)
    \/ \E r \in Requests : delete_user_save(r)
    \/ \E r \in Requests : save_products_historical(r)
    \/ \E r \in Requests : save_products_main(r)
    \/ TickLong

\* The default users exist.  Browser session 1 is admin's, logged in at time
\* 0; browser session 2 is logged out or that of another default user.
LoggedIn(u) ==
    Put(Put(Put(EmptyDict, "session_id", md5_session_id(u, 0, 0)),
            "username", u), "user_role", u)
InitMain ==
    /\ InitCommon
    /\ now = 1
    /\ users = DefaultUsers
    /\ products = NoBlob
    /\ historical = EmptyDict
    /\ \E others \in {{}, {"gerencia_ventas"}, {"gerencia_media"}, {"asesor"}} :
        /\ sessions = Blob([s \in {md5_session_id(u, 0, 0) :
                                      u \in {"admin"} \cup others} |->
                               new_session(s.md5[1], 0)])
        /\ issued = {[sid |-> md5_session_id(u, 0, 0), username |-> u,
                      at |-> 0] : u \in {"admin"} \cup others}
        /\ session_state =
             [r \in Requests |->
                IF r = 1 THEN LoggedIn("admin")
                ELSE IF others = {} THEN EmptyDict
                ELSE LoggedIn(CHOOSE u \in others : TRUE)]

SpecMain == InitMain /\ [][NextMain]_vars

----------------------------------------------------------------------------
(* initialize_default_data: the first requests on an empty bucket *)

\* The order in which initialize_default_data creates the default users.
default_order == <<"admin", "gerencia_ventas", "gerencia_media", "asesor">>
default_account(u) == CHOOSE a \in default_accounts : a[1] = u
create_default(u) ==
    [fn |-> "create_user", username |-> u,
     password |-> default_account(u)[2], role |-> default_account(u)[3]]

\* A request starts main: initialize_default_data() is called.
initialize_default_data_call(r) ==
    /\ Idle(r)
    /\ run[r].stage = "none"
    /\ pc' = [pc EXCEPT ![r] = "initialize_default_data"]
    /\ run' = [run EXCEPT ![r].stage = "init"]
    /\ UNCHANGED <<storage, now, usec, ncalls, nfaults, history, call, local,
                   snap, atCall, ret, session_state, shown>>

\* if not fs.exists(USERS_FILE): create_user("admin", "admin123", "admin")
initialize_default_data_exists(r) ==
    /\ pc[r] = "initialize_default_data"
    /\ IF users.exists
       THEN /\ pc' = [pc EXCEPT ![r] = "idle"]
            /\ run' = [run EXCEPT ![r].stage = "init_done"]
            /\ UNCHANGED <<call, local, snap, atCall, ret>>
       ELSE /\ Enter(r, create_default(default_order[1]))
            /\ run' = [run EXCEPT ![r].username = default_order[1]]
    /\ UNCHANGED <<storage, now, usec, ncalls, nfaults, history,
                   session_state, shown>>

\* The create_user call has returned: the next default user, or the end.
initialize_default_data_next(r) ==
    /\ run[r].stage = "init"
    /\ run[r].username # ""
    /\ Idle(r)
    /\ LET i == CHOOSE k \in DOMAIN default_order :
                    default_order[k] = run[r].username
       IN  IF i = Len(default_order)
           THEN /\ run' = [run EXCEPT ![r].stage = "init_done"]
                /\ UNCHANGED procs
           ELSE /\ Enter(r, create_default(default_order[i + 1]))
                /\ run' = [run EXCEPT ![r].username = default_order[i + 1]]
    /\ UNCHANGED <<storage, now, usec, ncalls, nfaults, history,
                   session_state, shown>>

NextInit ==
    \/ \E r \in Requests : initialize_default_data_call(r)
    \/ \E r \in Requests : initialize_default_data_exists(r)
    \/ \E r \in Requests : initialize_default_data_next(r)
    \/ \E r \in Requests : create_user_load(r)
    \/ \E r \in Requests : create_user_save(r)

\* The bucket holds no users file and no session yet.
InitEmpty ==
    /\ InitCommon
    /\ now = 0
    /\ users = NoBlob
    /\ sessions = NoBlob
    /\ products = NoBlob
    /\ historical = EmptyDict
    /\ issued = {}
    /\ session_state = [r \in Requests |-> EmptyDict]

SpecInit == InitEmpty /\ [][NextInit]_vars

----------------------------------------------------------------------------
(* The statistics tab of the three panels *)

\* The panels with an "Estadísticas" tab: show_admin_panel,
\* show_admin_panel_ventas and show_admin_panel_media run the same code.
StatisticsPanels == {"admin", "gerencia_ventas", "gerencia_media"}

\* st.metric("Total Usuarios", len(users)), st.metric("Sesiones Activas",
\* len(sessions)), st.metric("Total Vehículos", len(products_df))
Metrics(panel, users_l, sessions_l, products_df) ==
    [kind |-> "metrics", panel |-> panel,
     usuarios  |-> Cardinality(DOMAIN users_l),
     sesiones  |-> Cardinality(DOMAIN sessions_l),
     vehiculos |-> Len(products_df.rows)]

\* One rendering of the statistics tab: the three files are loaded and the
\* three figures are displayed.
show_statistics(r) ==
    /\ Idle(r)
    /\ ncalls < MaxCalls
    /\ ncalls' = ncalls + 1
    /\ \E panel \in StatisticsPanels,
          raisesP \in Outcomes, raisesU \in Outcomes, raisesS \in Outcomes :
        LET n == (IF raisesP THEN 1 ELSE 0) + (IF raisesU THEN 1 ELSE 0)
                   + (IF raisesS THEN 1 ELSE 0)
        IN  /\ nfaults + n <= MaxFaults
            /\ nfaults' = nfaults + n
            /\ shown' = [shown EXCEPT ![r] =
                   {Metrics(panel,
                            load_json_file(users, raisesU),
                            load_json_file(sessions, raisesS),
                            load_products(products, raisesP))}]
    /\ UNCHANGED <<storage, now, usec, procs, history, session_state, run>>

NextStatistics ==
    \/ \E r \in Requests : show_statistics(r)
    \/ \E r \in Requests : create_session_call(r)
    \/ \E r \in Requests : create_session_load(r)
    \/ \E r \in Requests : create_session_save(r)
    \/ \E r \in Requests : validate_session_call(r)
    \/ \E r \in Requests : validate_session_load(r)
    \/ \E r \in Requests : validate_session_save(r)
    \/ \E r \in Requests : logout_session_call(r)
    \/ \E r \in Requests : logout_session_load(r)
    \/ \E r \in Requests : logout_session_save(r)
    \/ TickFine
    \/ TickLong

SpecStatistics == Init /\ [][NextStatistics]_vars

(*--------------------------- CLAIMS SECTION -----------------------------*)

\* The step in which request r returns from helper fn.
Returns(r, fn) == call[r].fn = fn /\ pc'[r] = "idle"
\* The step in which r's helper fn gets the answer of its load_json_file.
Loads(r, fn) == pc[r] = fn /\ pc'[r] # fn

Expiry(s) == s.at + timedelta_hours(SESSION_HOURS)

----------------------------------------------------------------------------
\* C3: a session created by create_session(u) at time t makes
\* validate_session return (True, u) at every time up to t + 8h unless it was
\* logged out, and after t + 8h validate_session returns (False, None) and
\* the session is gone from sessions.json.  Stated for the runs in which no
\* storage call raised.
CE_C3_SessionLastsEightHours ==
    [][\A r \in Requests : \A s \in issued :
         (/\ nfaults' = 0
          /\ Returns(r, "validate_session")
          /\ call[r].session_id = s.sid)
         => /\ (now <= Expiry(s) /\ s.sid \notin loggedOut)
                 => ret'[r] = <<TRUE, s.username>>
            /\ now > Expiry(s)
                 => /\ ret'[r] = <<FALSE, None>>
                    /\ s.sid \notin DOMAIN sessions'.data]_vars

----------------------------------------------------------------------------
\* C10: once logout_session(sid) has returned, validate_session(sid) returns
\* (False, None) ever after, whatever other requests do with other sessions.
\* Stated for the runs in which no storage call raised.
CE_C10_LogoutIsFinal ==
    [][\A r \in Requests :
         (/\ nfaults' = 0
          /\ Returns(r, "validate_session")
          /\ call[r].session_id \in loggedOut)
         => ret'[r] = <<FALSE, None>>]_vars

----------------------------------------------------------------------------
\* C7: authenticate_user(u, p) succeeds exactly when u is a key of users.json
\* and hash_password(p) is the stored hash; it answers "Usuario no encontrado"
\* when u is absent and "Contraseña incorrecta" when the hash differs, and
\* writes nothing in either case.
StoredUser(u) == users.exists /\ u \in DOMAIN users.data
CE_C7_AuthenticateExactly ==
    [][\A r \in Requests :
         Loads(r, "authenticate_user") =>
           LET u    == call[r].username
               good == /\ StoredUser(u)
                       /\ users.data[u].password = hash_password(call[r].password)
           IN  /\ good <=> pc'[r] = "authenticate_user_save"
               /\ ~StoredUser(u)
                    => ret'[r] = <<FALSE, "Usuario no encontrado">>
               /\ (StoredUser(u) /\ ~good)
                    => ret'[r] = <<FALSE, "Contraseña incorrecta">>
               /\ ~good => users' = users]_vars

----------------------------------------------------------------------------
\* C8: whenever create_user(u, p, r) returns (True, ...), users.json then holds
\* u with role r, the hash of p and last_login None, and every user stored
\* before the call (and not touched by another request during it) is still
\* stored with the same record; also when the load or the save raised.
CE_C8_CreateKeepsUsers ==
    [][\A r \in Requests :
         (Returns(r, "create_user") /\ ret'[r][1]) =>
           LET u == call[r].username
               d == users'.data
           IN  /\ u \in DOMAIN d
               /\ d[u].role = call[r].role
               /\ d[u].password = hash_password(call[r].password)
               /\ d[u].last_login = None
               /\ \A v \in (DOMAIN atCall[r]) \cap (DOMAIN users.data) :
                    users.data[v] = atCall[r][v]
                      => v \in DOMAIN d /\ d[v] = atCall[r][v]]_vars

----------------------------------------------------------------------------
\* C9: create_user with a username stored in users.json returns
\* (False, "El usuario ya existe") and leaves the file as it is; delete_user
\* of a username that is not stored returns (False, ...) and writes nothing.
CE_C9_CreateExistingRefused ==
    [][\A r \in Requests :
         /\ (Loads(r, "create_user") /\ StoredUser(call[r].username))
              => /\ pc'[r] = "idle"
                 /\ ret'[r] = <<FALSE, "El usuario ya existe">>
                 /\ users' = users
         /\ (Loads(r, "delete_user") /\ ~StoredUser(call[r].username))
              => /\ pc'[r] = "idle"
                 /\ ret'[r] = <<FALSE, "El usuario no existe.">>
                 /\ users' = users]_vars

----------------------------------------------------------------------------
\* C6: last write wins on users.json and sessions.json: whatever the
\* interleaving, a file that is written holds the snapshot the writing helper
\* loaded plus that helper's own change and nothing else; what others saved
\* between its load and its save is not merged.
OnlyOwnKey(s, d, k) ==
    /\ (DOMAIN d) \ {k} = (DOMAIN s) \ {k}
    /\ \A x \in (DOMAIN d) \ {k} : d[x] = s[x]

OwnChange(c, s, d) ==
    CASE c.fn = "create_user" ->
           /\ OnlyOwnKey(s, d, c.username)
           /\ c.username \in DOMAIN d
           /\ d[c.username].role = c.role
           /\ d[c.username].password = hash_password(c.password)
      [] c.fn = "delete_user" ->
           OnlyOwnKey(s, d, c.username) /\ c.username \notin DOMAIN d
      [] c.fn = "authenticate_user" ->
           /\ OnlyOwnKey(s, d, c.username)
           /\ c.username \in DOMAIN d
           /\ d[c.username] =
                [s[c.username] EXCEPT !.last_login = d[c.username].last_login]
           /\ d[c.username].last_login # None
      [] c.fn = "create_session" ->
           /\ OnlyOwnKey(s, d, c.session_id)
           /\ c.session_id \in DOMAIN d
           /\ d[c.session_id].username = c.username
      [] c.fn \in {"validate_session", "logout_session"} ->
           OnlyOwnKey(s, d, c.session_id) /\ c.session_id \notin DOMAIN d
      [] OTHER -> FALSE

Writer(r, fns) == call[r].fn \in fns /\ pc[r] # call[r].fn /\ pc'[r] = "idle"

T_C6_LastWriteWins ==
    [][/\ users' # users =>
            \E r \in Requests :
                /\ Writer(r, UsersHelpers)
                /\ users'.exists
                /\ OwnChange(call[r], snap[r], users'.data)
       /\ sessions' # sessions =>
            \E r \in Requests :
                /\ Writer(r, SessionsHelpers)
                /\ sessions'.exists
                /\ OwnChange(call[r], snap[r], sessions'.data)]_vars

\* A session that was handed out, has not expired, was not logged out and is
\* stored no more although no storage call raised: a later save of an older
\* snapshot dropped it.
W_C6_LostUpdate ==
    /\ nfaults = 0
    /\ \E s \in issued :
        /\ s.sid \notin DOMAIN sessions.data
        /\ s.sid \notin loggedOut
        /\ now <= Expiry(s)
        /\ \A r \in Requests : Idle(r)

----------------------------------------------------------------------------
\* C1: every save of the price list gets its own history copy: after k calls
\* of save_products whose uploads all succeeded the history folder holds k
\* more files than before (it was empty), and for each call a history file
\* holds the data of that call, also for two calls within one clock minute.
CE_C1_HistoryCopyPerSave ==
    (nfaults = 0 /\ \A r \in Requests : Idle(r)) =>
        /\ Cardinality(DOMAIN historical) = Len(saved)
        /\ \A i \in DOMAIN saved :
             \E f \in DOMAIN historical : read_csv(historical[f]) = saved[i]

----------------------------------------------------------------------------
\* C5: the table show_products_dashboard displays to an asesor has columns of
\* the basic set only, for every current or historical file it can display.
CE_C5_AsesorSeesBasicOnly ==
    \A r \in Requests : \A v \in shown[r] :
        (v.kind = "table" /\ v.role = "asesor") =>
            v.columns \subseteq basic_columns

----------------------------------------------------------------------------
\* C2: in every run of main, save_products is invoked only when the role
\* users.json held for the user of the validated session, as get_user_role
\* read it in that run, is admin or gerencia_ventas, and create_user and
\* delete_user only when it is admin; a gerencia_media or asesor user reaches
\* none of them.
InSaveProducts(r) == pc[r] \in {"save_products", "save_products_main"}
InUserAdmin(r) ==
    pc[r] \in {"create_user", "create_user_save",
               "delete_user", "delete_user_save"}

T_C2_WritesGatedByRole ==
    \A r \in Requests :
        /\ InSaveProducts(r)
              => /\ run[r].valid = "yes"
                 /\ run[r].role \in {"admin", "gerencia_ventas"}
        /\ InUserAdmin(r)
              => /\ run[r].valid = "yes"
                 /\ run[r].role = "admin"

\* A gerencia_ventas user pressed the save button of its panel: the history
\* copy is uploaded and save_products is about to write the main file.
W_C2_VentasSaves ==
    \E r \in Requests :
        /\ pc[r] = "save_products_main"
        /\ run[r].valid = "yes"
        /\ run[r].role = "gerencia_ventas"
        /\ session_state[r]["user_role"] = "gerencia_ventas"

----------------------------------------------------------------------------
\* C4: in any run of main the dashboard or a panel is rendered only if
\* session_state holds a session_id for which validate_session returned True
\* in that run; when validation fails every key of session_state is deleted
\* and the run shows the login form only.
RoleContent ==
    {"table", "warning", "error", "admin_panel", "ventas_panel", "media_panel"}

T_C4_ContentNeedsValidSession ==
    \A r \in Requests :
        /\ (\E v \in shown[r] : v.kind \in RoleContent)
              => /\ run[r].valid = "yes"
                 /\ "session_id" \in DOMAIN session_state[r]
        /\ run[r].valid = "no"
              => /\ session_state[r] = EmptyDict
                 /\ shown[r] = {LoginForm}

\* A session that expired: validate_session dropped it from sessions.json and
\* its browser, which showed the page before, is back at the login form.
W_C4_ExpiredBackToLogin ==
    \E r \in Requests :
        /\ run[r].valid = "no"
        /\ run[r].stage = "done"
        /\ shown[r] = {LoginForm}
        /\ session_state[r] = EmptyDict
        /\ now > SessionLife
        /\ nfaults = 0
        /\ md5_session_id("admin", 0, 0) \notin DOMAIN sessions.data

----------------------------------------------------------------------------
\* C11: starting from an absent users file, once every request that ran
\* initialize_default_data has finished (one request, or two running it
\* concurrently), users.json holds the four default users, each with the role
\* of its name; and a request that finds the users file writes nothing.
\* Stated for the runs in which no storage call raised.
InitRan(r)      == run[r].stage \in {"init", "init_done"}
InitFinished(r) == run[r].stage = "init_done"
FourDefaults ==
    /\ users.exists
    /\ \A a \in default_accounts :
         /\ a[1] \in DOMAIN users.data
         /\ users.data[a[1]].role = a[3]

CE_C11_DefaultsInitialised ==
    [][/\ (/\ nfaults' = 0
           /\ \E r \in Requests : InitRan(r)'
           /\ \A r \in Requests : InitRan(r)' => InitFinished(r)')
            => FourDefaults'
       /\ \A r \in Requests :
            (/\ pc[r] = "initialize_default_data"
             /\ pc'[r] # pc[r]
             /\ users.exists)
              => /\ InitFinished(r)'
                 /\ Idle(r)'
                 /\ users' = users]_vars

----------------------------------------------------------------------------
\* C12: whenever save_products(df) returns, the main products file and the
\* newest history copy hold the same data, the data of the latest save that
\* wrote anything (both are absent while nothing was written), also when one
\* of the two uploads inside the call raised.
newest_historical ==
    CHOOSE f \in DOMAIN historical :
        \A g \in DOMAIN historical : g.stamp <= f.stamp
MainMatchesNewestCopy ==
    IF DOMAIN historical = {}
    THEN ~products.exists
    ELSE /\ products.exists
         /\ products.data = historical[newest_historical]

CE_C12_MainMatchesNewestCopy ==
    [][\A r \in Requests :
         Returns(r, "save_products") => MainMatchesNewestCopy']_vars

----------------------------------------------------------------------------
\* C13: the "Sesiones Activas" figure of a statistics tab equals the number of
\* sessions active at the moment it is rendered, i.e. the sessions stored in
\* sessions.json whose expires_at has not passed, after any sequence of
\* logins, logouts, validations and clock ticks.  Stated for the renderings
\* in runs in which no storage call raised, while some stored session is
\* active (the viewer of a panel holds one).
ActiveSessions ==
    {s \in DOMAIN sessions.data :
        ~(now > fromisoformat(sessions.data[s].expires_at))}
RendersStatistics(r) ==
    /\ Idle(r)
    /\ shown'[r] # shown[r]
    /\ \E v \in shown'[r] : v.kind = "metrics"

CE_C13_ActiveSessionsFigure ==
    [][\A r \in Requests :
         (RendersStatistics(r) /\ nfaults' = 0 /\ ActiveSessions # {}) =>
            \A v \in shown'[r] :
                v.sesiones = Cardinality(ActiveSessions)]_vars

============================================================================
